---- MODULE Spec2Model ----
(***************************************************************************)
(* Model of the go-terminator package: a registry of closers, a monitor    *)
(* goroutine that waits for one termination signal, closes the registered  *)
(* resources in reverse order (each in its own goroutine, under an         *)
(* optional context deadline), reports to a callback and closes the        *)
(* completion channel on which Wait callers block.                         *)
(***************************************************************************)
EXTENDS Integers, Sequences, FiniteSets, TLC

\* ---------------------------------------------------------------- bounds
MaxRes == 2               \* registrations (Add / AddWithTimeout calls)
NumWaiters == 2           \* goroutines calling Wait

\* ------------------------------------------------------------ value sets
\* resources are named after their position, as in TestCallback
AppNames == <<"app0", "app1", "app2", "app3">>
Signals == {"INT", "TERM"}
\* the close functions a caller supplies: returns nil, returns an error,
\* never returns
CloseFuncs == {"ok", "fail", "hang"}
\* time.Duration values: 0 is "no deadline", 1 stands for any D > 0
Timeouts == {0, 1}
Nil == "nil"
Callbacks == {Nil, "cb"}
Waiters == 1..NumWaiters
\* the signal sets NewTerminator is constructed with
SignalSets == {{}, {"INT"}}

VARIABLES
    closersStack,   \* t.closersStack: sequence of payloads
    closeSignals,   \* argument of NewTerminator
    subscribed,     \* signal.Notify in force on t.signalChan
    signalChan,     \* t.signalChan, buffered, capacity 1
    completedChan,  \* t.completedChan: "open" or "closed"
    callbackFunc,   \* t.callbackFunc
    pc,             \* position of the startMonitor goroutine
    result,         \* startMonitor's TerminationResult
    stackIndex,     \* closeAll's loop variable (0-based, as in the source)
    gpc,            \* position of the closeStack goroutine
    ctxDone,        \* the derived context's Done channel is closed
    closeErr,       \* value Close returned, buffered for the select
    resultChan,     \* closeStack's result channel, capacity 1
    wpc,            \* per Wait caller: "idle", "waiting", "true", "false"
    wTimer,         \* per Wait caller in its select: time.After(timeout) has fired
    \* history variables (observations, not program state)
    invoked,        \* stack indices in the order Close was called
    overran,        \* the deadline had expired when the current Close returned
    exceeded,       \* some Close of this sequence returned after its deadline
    wAfter,         \* per Wait caller in its select: it entered after completion
    walkStart,      \* len(t.closersStack) read by closeAll, -1 before
    regAtTrigger,   \* len(t.closersStack) when the signal was consumed
    consumed,       \* number of signals startMonitor has received
    cbReports,      \* reports passed to the callback
    cbReturned      \* number of callback invocations that returned

vars == <<closersStack, closeSignals, subscribed, signalChan, completedChan,
          callbackFunc, pc, result, stackIndex, gpc, ctxDone, closeErr,
          resultChan, wpc, wTimer, invoked, overran, exceeded, wAfter, walkStart,
          regAtTrigger, consumed, cbReports, cbReturned>>

monitorVars == <<pc, result, stackIndex, gpc, ctxDone, closeErr, resultChan,
                 completedChan, subscribed, invoked, overran, exceeded, walkStart,
                 regAtTrigger, consumed, cbReports, cbReturned>>
regVars == <<closersStack, callbackFunc>>
waitVars == <<wpc, wTimer, wAfter>>
sigVars == <<closeSignals, signalChan>>

\* --------------------------------------------------------------- helpers
\* the name the caller gives the next resource it registers
Names == {AppNames[Len(closersStack) + 1]}

\* payload{Name, Close, Timeout}
payload(name, close, timeout) == [Name |-> name, Timeout |-> timeout, Close |-> close]

\* TerminationResultData
TerminationResultData(name, status, err) == [Name |-> name, Status |-> status, Error |-> err]

\* what calling closer.Close(ctx) returns once it returns
CloseResult(close) == IF close = "ok" THEN Nil ELSE "CloseError"

\* a context that reports no error although it is done
CtxErr_nil(done) == Nil

\* ctx.Err(): non-nil once the context is done
CtxErr(done) == IF done THEN "DeadlineExceeded" ELSE Nil

\* a status that treats a timeout as no failure
StatusOf_closeOnly(err) == IF err = "CloseError" THEN "FAILED" ELSE "SUCCESS"

\* closeStack: status from err
StatusOf(err) == IF err = Nil THEN "SUCCESS" ELSE "FAILED"

\* signal.Notify(c, sigs...): with no signals given, all signals are relayed
Relayed(s) == subscribed /\ (closeSignals = {} \/ s \in closeSignals)

\* a walk that indexes the registry from its front
CloserIndex_forward == walkStart - 1 - stackIndex

\* closeAll: &t.closersStack[stackIndex], the payload being closed
CloserIndex == stackIndex
Closer == closersStack[CloserIndex + 1]

\* ------------------------------------------------------------------ Init
\* NewTerminator: channels made, Notify called, monitor goroutine started
Init ==
    /\ closersStack = <<>>
    /\ closeSignals \in SignalSets
    /\ subscribed = TRUE
    /\ signalChan = <<>>
    /\ completedChan = "open"
    /\ callbackFunc = Nil
    /\ pc = "recv"
    /\ result = [Signal |-> Nil, FailedOrTimeoutCount |-> 0, Result |-> <<>>]
    /\ stackIndex = 0
    /\ gpc = "none"
    /\ ctxDone = FALSE
    /\ closeErr = Nil
    /\ resultChan = <<>>
    /\ wpc = [w \in Waiters |-> "idle"]
    /\ wTimer = [w \in Waiters |-> FALSE]
    /\ invoked = <<>>
    /\ overran = FALSE
    /\ exceeded = FALSE
    /\ wAfter = [w \in Waiters |-> FALSE]
    /\ walkStart = -1
    /\ regAtTrigger = -1
    /\ consumed = 0
    /\ cbReports = <<>>
    /\ cbReturned = 0

\* NewTerminator([]os.Signal{os.Interrupt}), as the tests and the example do
InitWait == Init /\ closeSignals = {"INT"}

\* ---------------------------------------------------- registration calls
AddWithTimeout(name, close, timeout) ==
    /\ Len(closersStack) < MaxRes
    /\ closersStack' = Append(closersStack, payload(name, close, timeout))
    /\ UNCHANGED <<callbackFunc, monitorVars, waitVars, sigVars>>

Add(name, close) == AddWithTimeout(name, close, 0)

SetCallback(fn) ==
    /\ callbackFunc # fn
    /\ callbackFunc' = fn
    /\ UNCHANGED <<closersStack, monitorVars, waitVars, sigVars>>

\* ------------------------------------------------------------------ Wait
\* Wait is entered: the select starts with a fresh time.After(timeout)
WaitCall(w, timeout) ==
    /\ wpc[w] # "waiting"
    /\ wpc' = [wpc EXCEPT ![w] = "waiting"]
    /\ wTimer' = [wTimer EXCEPT ![w] = (timeout = 0)]
    /\ wAfter' = [wAfter EXCEPT ![w] = (completedChan = "closed")]
    /\ UNCHANGED <<regVars, monitorVars, sigVars>>

\* the timer of time.After(timeout) fires
WaitTimerFire(w) ==
    /\ wpc[w] = "waiting"
    /\ ~wTimer[w]
    /\ wTimer' = [wTimer EXCEPT ![w] = TRUE]
    /\ UNCHANGED <<wpc, wAfter, regVars, monitorVars, sigVars>>

\* a completion signal that is a value the first receiver takes
WaitTrue_consume(w) ==
    /\ wpc[w] = "waiting"
    /\ completedChan = "closed"
    /\ completedChan' = "open"
    /\ wpc' = [wpc EXCEPT ![w] = "true"]
    /\ wTimer' = [wTimer EXCEPT ![w] = FALSE]
    /\ wAfter' = [wAfter EXCEPT ![w] = FALSE]
    /\ UNCHANGED <<pc, result, stackIndex, gpc, ctxDone, closeErr, resultChan,
                   subscribed, invoked, overran, exceeded, walkStart, regAtTrigger, consumed,
                   cbReports, cbReturned, regVars, sigVars>>

\* case <-t.completedChan: return true (a receive from a closed channel)
WaitTrue(w) ==
    /\ wpc[w] = "waiting"
    /\ completedChan = "closed"
    /\ wpc' = [wpc EXCEPT ![w] = "true"]
    /\ wTimer' = [wTimer EXCEPT ![w] = FALSE]
    /\ wAfter' = [wAfter EXCEPT ![w] = FALSE]
    /\ UNCHANGED <<regVars, monitorVars, sigVars>>

\* a select with a default case: false without waiting for the timer
WaitFalse_default(w) ==
    /\ wpc[w] = "waiting"
    /\ wpc' = [wpc EXCEPT ![w] = "false"]
    /\ wTimer' = [wTimer EXCEPT ![w] = FALSE]
    /\ wAfter' = [wAfter EXCEPT ![w] = FALSE]
    /\ UNCHANGED <<regVars, monitorVars, sigVars>>

\* a Wait that gives up on timeout and stops the signal subscription
WaitFalse_unsubscribe(w) ==
    /\ wpc[w] = "waiting"
    /\ wTimer[w]
    /\ wpc' = [wpc EXCEPT ![w] = "false"]
    /\ wTimer' = [wTimer EXCEPT ![w] = FALSE]
    /\ wAfter' = [wAfter EXCEPT ![w] = FALSE]
    /\ subscribed' = FALSE
    /\ UNCHANGED <<pc, result, stackIndex, gpc, ctxDone, closeErr, resultChan,
                   completedChan, invoked, overran, exceeded, walkStart, regAtTrigger,
                   consumed, cbReports, cbReturned, regVars, sigVars>>

\* case <-time.After(timeout): return false
WaitFalse(w) ==
    /\ wpc[w] = "waiting"
    /\ wTimer[w]
    /\ wpc' = [wpc EXCEPT ![w] = "false"]
    /\ wTimer' = [wTimer EXCEPT ![w] = FALSE]
    /\ wAfter' = [wAfter EXCEPT ![w] = FALSE]
    /\ UNCHANGED <<regVars, monitorVars, sigVars>>

\* ------------------------------------------------------- signal delivery
\* os/signal relays a signal with a non-blocking send on the channel
Notify(s) ==
    /\ Relayed(s)
    /\ Len(signalChan) < 1
    /\ signalChan' = Append(signalChan, s)
    /\ UNCHANGED <<closeSignals, regVars, monitorVars, waitVars>>

\* a monitor that stops the subscription as soon as it has received the signal
MonitorReceive_unsubscribe ==
    /\ pc = "recv"
    /\ signalChan # <<>>
    /\ signalChan' = Tail(signalChan)
    /\ result' = [Signal |-> Head(signalChan), FailedOrTimeoutCount |-> 0, Result |-> <<>>]
    /\ consumed' = consumed + 1
    /\ regAtTrigger' = Len(closersStack)
    /\ subscribed' = FALSE
    /\ pc' = "closeAll"
    /\ UNCHANGED <<closeSignals, completedChan, stackIndex, gpc, ctxDone,
                   closeErr, resultChan, invoked, overran, exceeded, walkStart,
                   cbReports, cbReturned, regVars, waitVars>>

\* ---------------------------------------------------------- startMonitor
\* s := <-t.signalChan; result := TerminationResult{Signal: s, ...}
MonitorReceive ==
    /\ pc = "recv"
    /\ signalChan # <<>>
    /\ signalChan' = Tail(signalChan)
    /\ result' = [Signal |-> Head(signalChan), FailedOrTimeoutCount |-> 0, Result |-> <<>>]
    /\ consumed' = consumed + 1
    /\ regAtTrigger' = Len(closersStack)
    /\ pc' = "closeAll"
    /\ UNCHANGED <<closeSignals, subscribed, completedChan, stackIndex, gpc, ctxDone,
                   closeErr, resultChan, invoked, overran, exceeded, walkStart, cbReports,
                   cbReturned, regVars, waitVars>>

\* closeAll: stackIndex = len(t.closersStack) - 1
CloseAllStart ==
    /\ pc = "closeAll"
    /\ stackIndex' = Len(closersStack) - 1
    /\ walkStart' = Len(closersStack)
    /\ pc' = "loop"
    /\ UNCHANGED <<result, gpc, ctxDone, closeErr, resultChan, completedChan,
                   subscribed, invoked, overran, exceeded, regAtTrigger, consumed, cbReports,
                   cbReturned, regVars, waitVars, sigVars>>

\* AddWithTimeout writes t.closersStack (slice header and element) and the
\* monitor goroutine reads it, with no lock or channel between them.  An
\* append made after the signal was consumed is ordered before none of the
\* monitor's reads: a data race on a multiword value.
Racing == Len(closersStack) > regAtTrigger

\* what a read of t.closersStack[stackIndex] can yield: the payload as
\* registered, or, when the read races with an append, an inconsistent
\* header or element (the Go memory model allows memory corruption and lets
\* the implementation end the program)
ReadOutcomes == IF Racing THEN {"payload", "fault"} ELSE {"payload"}

\* a closeAll that starts the close of a resource and moves on to the next
\* without waiting for its record
CloseStack_noWait ==
    /\ pc = "loop"
    /\ stackIndex >= 0
    /\ gpc' = "inClose"
    /\ ctxDone' = FALSE
    /\ invoked' = Append(invoked, CloserIndex)
    /\ stackIndex' = IF stackIndex > 0 THEN stackIndex - 1 ELSE stackIndex
    /\ pc' = IF stackIndex > 0 THEN "loop" ELSE "await"
    /\ UNCHANGED <<result, closeErr, resultChan, completedChan,
                   subscribed, overran, exceeded, walkStart, regAtTrigger, consumed,
                   cbReports, cbReturned, regVars, waitVars, sigVars>>

\* loop test true: closeStack(&t.closersStack[stackIndex]) starts the
\* goroutine, which derives the context and, evaluating the operands of its
\* select, calls closer.Close(ctx); closeAll blocks on the result channel
CloseStack ==
    /\ pc = "loop"
    /\ stackIndex >= 0
    /\ \E read \in ReadOutcomes :
           IF read = "payload"
           THEN /\ gpc' = "inClose"
                /\ ctxDone' = FALSE
                /\ invoked' = Append(invoked, CloserIndex)
                /\ pc' = "await"
           ELSE /\ pc' = "fault"
                /\ UNCHANGED <<gpc, ctxDone, invoked>>
    /\ UNCHANGED <<result, stackIndex, closeErr, resultChan, completedChan,
                   subscribed, overran, exceeded, walkStart, regAtTrigger, consumed,
                   cbReports, cbReturned, regVars, waitVars, sigVars>>

\* a context derived with WithTimeout whatever closer.Timeout is: with a
\* zero timeout it is done at once
DeadlineExceeded_always ==
    /\ gpc \in {"inClose", "select"}
    /\ ~ctxDone
    /\ ctxDone' = TRUE
    /\ UNCHANGED <<pc, result, stackIndex, gpc, closeErr, resultChan, completedChan,
                   subscribed, invoked, overran, exceeded, walkStart, regAtTrigger,
                   consumed, cbReports, cbReturned, regVars, waitVars, sigVars>>

\* the deadline of context.WithTimeout(ctx, closer.Timeout) passes
DeadlineExceeded ==
    /\ gpc \in {"inClose", "select"}
    /\ Closer.Timeout > 0
    /\ ~ctxDone
    /\ ctxDone' = TRUE
    /\ UNCHANGED <<pc, result, stackIndex, gpc, closeErr, resultChan, completedChan,
                   subscribed, invoked, overran, exceeded, walkStart, regAtTrigger, consumed,
                   cbReports, cbReturned, regVars, waitVars, sigVars>>

\* closer.Close(ctx) returns; the select can now choose
CloseReturn ==
    /\ gpc = "inClose"
    /\ Closer.Close # "hang"
    /\ closeErr' = CloseResult(Closer.Close)
    /\ overran' = ctxDone
    /\ exceeded' = (exceeded \/ ctxDone)
    /\ gpc' = "select"
    /\ UNCHANGED <<pc, result, stackIndex, ctxDone, resultChan, completedChan,
                   subscribed, invoked, walkStart, regAtTrigger, consumed,
                   cbReports, cbReturned, regVars, waitVars, sigVars>>

\* after the select: status from err, the send on result, and the goroutine
\* returns (its deferred cancel() ends a derived context)
SendResult(err) ==
    /\ resultChan' = Append(resultChan,
                            TerminationResultData(Closer.Name, StatusOf(err), err))
    /\ ctxDone' = (Closer.Timeout > 0)
    /\ closeErr' = Nil
    /\ gpc' = "none"

\* case <-ctx.Done(): err = ctx.Err(); if err == nil { err = closer.Close(ctx) }
SelectDone ==
    /\ gpc = "select"
    /\ ctxDone
    /\ LET err0 == CtxErr(ctxDone)
           again == err0 = Nil
       IN  /\ ~(again /\ Closer.Close = "hang")
           /\ invoked' = IF again THEN Append(invoked, CloserIndex) ELSE invoked
           /\ SendResult(IF again THEN CloseResult(Closer.Close) ELSE err0)
    /\ UNCHANGED <<pc, result, stackIndex, completedChan, subscribed, overran, exceeded,
                   walkStart, regAtTrigger, consumed, cbReports, cbReturned,
                   regVars, waitVars, sigVars>>

\* case errChan <- closer.Close(ctx): err = <-errChan
SelectClose ==
    /\ gpc = "select"
    /\ SendResult(closeErr)
    /\ UNCHANGED <<pc, result, stackIndex, completedChan, subscribed, invoked,
                   overran, exceeded, walkStart, regAtTrigger, consumed, cbReports,
                   cbReturned, regVars, waitVars, sigVars>>

\* closeAll: termData := <-result; count; append; stackIndex--
CloseAllCollect ==
    /\ pc = "await"
    /\ resultChan # <<>>
    /\ LET termData == Head(resultChan)
       IN  result' = [result EXCEPT
               !.FailedOrTimeoutCount = IF termData.Error # Nil THEN @ + 1 ELSE @,
               !.Result = Append(@, termData)]
    /\ resultChan' = Tail(resultChan)
    /\ stackIndex' = stackIndex - 1
    /\ overran' = FALSE
    /\ pc' = "loop"
    /\ UNCHANGED <<gpc, ctxDone, closeErr, completedChan, subscribed, invoked, exceeded,
                   walkStart, regAtTrigger, consumed, cbReports, cbReturned,
                   regVars, waitVars, sigVars>>

\* a monitor that closes the completion channel as soon as closeAll returns
CloseAllEnd_closeEarly ==
    /\ pc = "loop"
    /\ stackIndex < 0
    /\ completedChan' = "closed"
    /\ pc' = IF callbackFunc # Nil THEN "callback" ELSE "unsubscribe"
    /\ UNCHANGED <<result, stackIndex, gpc, ctxDone, closeErr, resultChan,
                   subscribed, invoked, overran, exceeded, walkStart,
                   regAtTrigger, consumed, cbReports, cbReturned, regVars,
                   waitVars, sigVars>>

\* loop test false: closeAll returns; if t.callbackFunc != nil
CloseAllEnd ==
    /\ pc = "loop"
    /\ stackIndex < 0
    /\ pc' = IF callbackFunc # Nil THEN "callback" ELSE "unsubscribe"
    /\ UNCHANGED <<result, stackIndex, gpc, ctxDone, closeErr, resultChan,
                   completedChan, subscribed, invoked, overran, exceeded, walkStart,
                   regAtTrigger, consumed, cbReports, cbReturned, regVars,
                   waitVars, sigVars>>

\* a monitor that starts the callback in a goroutine and does not wait for it
CallbackCall_async ==
    /\ pc = "callback"
    /\ callbackFunc # Nil
    /\ cbReports' = Append(cbReports, result)
    /\ pc' = "unsubscribe"
    /\ UNCHANGED <<result, stackIndex, gpc, ctxDone, closeErr, resultChan,
                   completedChan, subscribed, invoked, overran, exceeded, walkStart,
                   regAtTrigger, consumed, cbReturned, regVars, waitVars, sigVars>>

\* t.callbackFunc(result): the field is read again for the call; calling a
\* nil func value panics
CallbackCall ==
    /\ pc = "callback"
    /\ IF callbackFunc # Nil
       THEN /\ cbReports' = Append(cbReports, result)
            /\ pc' = "inCallback"
       ELSE /\ cbReports' = cbReports
            /\ pc' = "panic"
    /\ UNCHANGED <<result, stackIndex, gpc, ctxDone, closeErr, resultChan,
                   completedChan, subscribed, invoked, overran, exceeded, walkStart,
                   regAtTrigger, consumed, cbReturned, regVars, waitVars, sigVars>>

CallbackReturn ==
    /\ pc = "inCallback"
    /\ cbReturned' = cbReturned + 1
    /\ pc' = "unsubscribe"
    /\ UNCHANGED <<result, stackIndex, gpc, ctxDone, closeErr, resultChan,
                   completedChan, subscribed, invoked, overran, exceeded, walkStart,
                   regAtTrigger, consumed, cbReports, regVars, waitVars, sigVars>>

\* a monitor that leaves the signal subscription in force
unsubscribe_skip ==
    /\ pc = "unsubscribe"
    /\ pc' = "complete"
    /\ UNCHANGED <<result, stackIndex, gpc, ctxDone, closeErr, resultChan, subscribed,
                   completedChan, invoked, overran, exceeded, walkStart, regAtTrigger,
                   consumed, cbReports, cbReturned, regVars, waitVars, sigVars>>

\* t.unsubscribe(): signal.Stop(t.signalChan)
unsubscribe ==
    /\ pc = "unsubscribe"
    /\ subscribed' = FALSE
    /\ pc' = "complete"
    /\ UNCHANGED <<result, stackIndex, gpc, ctxDone, closeErr, resultChan,
                   completedChan, invoked, overran, exceeded, walkStart, regAtTrigger,
                   consumed, cbReports, cbReturned, regVars, waitVars, sigVars>>

\* a monitor that loops: after completing it waits for the next signal
CloseCompleted_again ==
    /\ pc = "complete"
    /\ completedChan' = "closed"
    /\ pc' = "recv"
    /\ UNCHANGED <<result, stackIndex, gpc, ctxDone, closeErr, resultChan,
                   subscribed, invoked, overran, exceeded, walkStart, regAtTrigger,
                   consumed, cbReports, cbReturned, regVars, waitVars, sigVars>>

\* close(t.completedChan); startMonitor returns
CloseCompleted ==
    /\ pc = "complete"
    /\ completedChan' = "closed"
    /\ pc' = "done"
    /\ UNCHANGED <<result, stackIndex, gpc, ctxDone, closeErr, resultChan,
                   subscribed, invoked, overran, exceeded, walkStart, regAtTrigger, consumed,
                   cbReports, cbReturned, regVars, waitVars, sigVars>>

\* ------------------------------------------------------------------ Next
\* a panic in the monitor goroutine, or a fault on a racy read, ends the process
Running == pc \notin {"panic", "fault"}

\* startMonitor and the closeStack goroutines
Monitor ==
    \/ MonitorReceive
    \/ CloseAllStart
    \/ CloseStack
    \/ DeadlineExceeded
    \/ CloseReturn
    \/ SelectDone
    \/ SelectClose
    \/ CloseAllCollect
    \/ CloseAllEnd
    \/ CallbackCall
    \/ CallbackReturn
    \/ unsubscribe
    \/ CloseCompleted

\* The orchestrator and a caller that registers resources and callbacks at
\* any time, with signals arriving at any time.
Next ==
    \/ \E n \in Names, c \in CloseFuncs : Running /\ Add(n, c)
    \/ \E n \in Names, c \in CloseFuncs, d \in Timeouts : Running /\ AddWithTimeout(n, c, d)
    \/ \E fn \in Callbacks : Running /\ SetCallback(fn)
    \/ \E s \in Signals : Running /\ Notify(s)
    \/ Monitor

Spec == Init /\ [][Next]_vars

\* the monitor, the closeStack goroutine and the deadline timer are scheduled:
\* while one of them can take a step, one eventually does
Fairness == WF_vars(Monitor)

FairSpec == Spec /\ Fairness

\* The orchestrator with callers blocked in Wait.  The caller keeps to the
\* documented discipline: it registers resources and the callback before a
\* signal arrives, and its close functions return.
Registering == pc = "recv" /\ signalChan = <<>>
ReturningCloseFuncs == CloseFuncs \ {"hang"}

NextWait ==
    \/ \E n \in Names, c \in ReturningCloseFuncs : Registering /\ Add(n, c)
    \/ \E n \in Names, c \in ReturningCloseFuncs, d \in Timeouts :
           Registering /\ AddWithTimeout(n, c, d)
    \/ \E fn \in Callbacks : Registering /\ SetCallback(fn)
    \/ \E w \in Waiters, d \in Timeouts : WaitCall(w, d)
    \/ \E w \in Waiters : WaitTimerFire(w)
    \/ \E w \in Waiters : WaitTrue(w)
    \/ \E w \in Waiters : WaitFalse(w)
    \/ \E s \in Signals : Notify(s)
    \/ Monitor

WaitSpec == InitWait /\ [][NextWait]_vars

\* a Wait caller whose select can proceed eventually proceeds; nothing
\* forces a timer to fire
FairWaitSpec == WaitSpec /\ Fairness /\ \A w \in Waiters : WF_vars(WaitTrue(w) \/ WaitFalse(w))

\* ================================================================ claims
\* the walk of closeAll is over
WalkDone == pc \in {"callback", "inCallback", "unsubscribe", "complete", "done", "panic"}

\* the first k indices a walk that starts at length n visits: n-1, n-2, ...
Descending(n, k) == [i \in 1..k |-> n - i]

\* C1: the close operations are invoked, and the Outcome Records appended,
\* in exactly the reverse of registration order (the resource registered
\* last first), whatever the close operations return; once the walk is
\* over this covers every resource registered before the trigger.
C1_ReverseOrder ==
    walkStart >= 0 =>
        /\ walkStart >= regAtTrigger
        /\ invoked = Descending(walkStart, Len(invoked))
        /\ Len(result.Result) <= Len(invoked)
        /\ \A i \in 1..Len(result.Result) :
               result.Result[i].Name = closersStack[walkStart - i + 1].Name
        /\ WalkDone => Len(result.Result) = walkStart /\ Len(invoked) = walkStart

\* two resources registered before the trigger, the one closed first failed,
\* both recorded
C1_Witness ==
    /\ pc = "done"
    /\ regAtTrigger = 2
    /\ Len(result.Result) = 2
    /\ result.Result[1].Name = "app1" /\ result.Result[1].Status = "FAILED"
    /\ result.Result[2].Name = "app0"
    /\ invoked = <<1, 0>>

\* C2: a resource with a deadline D > 0 whose close operation takes longer
\* than D to return is recorded FAILED with the deadline-exceeded error,
\* whatever the close operation returns.
C2_TimeoutRecorded ==
    (resultChan # <<>> /\ overran) =>
        /\ Head(resultChan).Status = "FAILED"
        /\ Head(resultChan).Error = "DeadlineExceeded"

\* a close operation without a deadline that never returns: the sequencer is
\* meant to wait for it
HungWithoutDeadline == gpc = "inClose" /\ Closer.Close = "hang" /\ Closer.Timeout = 0

\* C3: when a deadline expires before the close operation has returned, the
\* sequencer stops waiting for it, so a walk over the resources registered
\* before the trigger always ends with the Completion Signal open, unless a
\* close operation that has no deadline never returns.
C3_CompletesDespiteHang ==
    (consumed > 0 /\ walkStart = regAtTrigger)
        ~> (completedChan = "closed" \/ HungWithoutDeadline \/ pc \in {"panic", "fault"})

\* C4: every resource registered before the trigger has its close operation
\* invoked exactly once and gets exactly one Outcome Record; no close
\* operation is invoked twice, and a failed or timed-out close does not end
\* the walk.
C4_ExactlyOnce ==
    /\ \A i, j \in 1..Len(invoked) : i # j => invoked[i] # invoked[j]
    /\ Len(result.Result) <= Len(invoked)
    /\ Len(invoked) <= Len(result.Result) + 1
    /\ WalkDone =>
           \A k \in 0..(regAtTrigger - 1) :
               /\ Cardinality({i \in 1..Len(invoked) : invoked[i] = k}) = 1
               /\ Cardinality({i \in 1..Len(result.Result) :
                                   result.Result[i].Name = closersStack[k + 1].Name}) = 1

\* the resource closed first timed out, the next one was still closed
C4_Witness ==
    /\ pc = "done"
    /\ regAtTrigger = 2
    /\ Len(invoked) = 2
    /\ Len(result.Result) = 2
    /\ result.Result[1].Error = "DeadlineExceeded"
    /\ result.Result[2].Status = "SUCCESS"

\* a report's counter and statuses agree with its records' errors
ReportConsistent(r) ==
    /\ r.FailedOrTimeoutCount =
           Cardinality({i \in 1..Len(r.Result) : r.Result[i].Status # "SUCCESS"})
    /\ \A i \in 1..Len(r.Result) :
           (r.Result[i].Status = "FAILED") <=> (r.Result[i].Error # Nil)

\* C5: at every point of the sequence, and in the report the callback gets,
\* FailedOrTimeoutCount is the number of records whose status is not
\* SUCCESS, and a record is FAILED exactly when its error is non-nil.
C5_FailedCount ==
    /\ ReportConsistent(result)
    /\ \A i \in 1..Len(cbReports) : ReportConsistent(cbReports[i])
    /\ \A i \in 1..Len(resultChan) :
           /\ resultChan[i].Status \in {"SUCCESS", "FAILED"}
           /\ (resultChan[i].Status = "FAILED") <=> (resultChan[i].Error # Nil)

\* the callback got a report of two records, one failed and one succeeded
C5_Witness ==
    /\ Len(cbReports) = 1
    /\ Len(cbReports[1].Result) = 2
    /\ cbReports[1].FailedOrTimeoutCount = 1
    /\ \E i \in 1..2 : cbReports[1].Result[i].Error = "DeadlineExceeded"

\* C6: a callback set before the trigger is invoked exactly once, only with
\* the complete report (a record for every registered resource), and it has
\* returned before the Completion Signal opens.
C6_CallbackOnce ==
    /\ Len(cbReports) <= 1
    /\ cbReturned <= Len(cbReports)
    /\ \A i \in 1..Len(cbReports) :
           /\ WalkDone
           /\ cbReports[i] = result
           /\ Len(cbReports[i].Result) = Len(closersStack)
    /\ pc \in {"unsubscribe", "complete", "done"} =>
           /\ Len(cbReports) = IF callbackFunc # Nil THEN 1 ELSE 0
           /\ cbReturned = Len(cbReports)
    /\ completedChan = "closed" => cbReturned = Len(cbReports)

\* the callback got the report of two resources and returned; the signal is open
C6_Witness ==
    /\ completedChan = "closed"
    /\ callbackFunc # Nil
    /\ Len(cbReports) = 1
    /\ Len(cbReports[1].Result) = 2
    /\ cbReturned = 1

\* C7: when a Wait call has returned true the sequence is complete: every
\* registered resource's close operation was invoked, has returned and is
\* recorded, and the callback, if set, was invoked and has returned.
C7_WaitTrueMeansComplete ==
    \A w \in Waiters :
        wpc[w] = "true" =>
            /\ pc = "done"
            /\ completedChan = "closed"
            /\ gpc = "none"
            /\ Len(invoked) = Len(closersStack)
            /\ Len(result.Result) = Len(closersStack)
            /\ callbackFunc # Nil => (Len(cbReports) = 1 /\ cbReturned = 1)

\* a Wait call returned true after two resources and a callback
C7_Witness ==
    /\ \E w \in Waiters : wpc[w] = "true"
    /\ Len(closersStack) = 2
    /\ callbackFunc # Nil

\* C8: as long as the monitor has consumed no trigger, no Wait call returns
\* true, no close operation is invoked, and a Wait call leaves its select
\* only once its own timer has fired, returning false.
C8_NoTriggerWaitFalse ==
    /\ [](pc = "recv" =>
            /\ \A w \in Waiters : wpc[w] # "true"
            /\ invoked = <<>>
            /\ completedChan = "open")
    /\ [][\A w \in Waiters :
              (pc = "recv" /\ wpc[w] = "waiting" /\ wpc'[w] # "waiting")
                  => (wTimer[w] /\ wpc'[w] = "false")]_vars

\* two resources registered, no signal delivered, a Wait call returned false
C8_Witness ==
    /\ pc = "recv"
    /\ signalChan = <<>>
    /\ Len(closersStack) = 2
    /\ \E w \in Waiters : wpc[w] = "false"

\* the sequence ran to its end: every resource closed in reverse order and
\* recorded, the callback invoked if set, the Completion Signal open
SequenceComplete ==
    /\ pc = "done"
    /\ completedChan = "closed"
    /\ invoked = Descending(Len(closersStack), Len(closersStack))
    /\ Len(result.Result) = Len(closersStack)
    /\ callbackFunc # Nil => Len(cbReports) = 1

\* a Wait call blocked on the open Completion Signal gets true unless its own
\* timer fires first
Released(w) ==
    (completedChan = "closed" /\ wpc[w] = "waiting" /\ ~wTimer[w])
        ~> (wpc[w] = "true" \/ wTimer[w])

\* C9: a Wait call that times out while the sequence runs returns false
\* without changing anything of the sequence, which still runs to its end;
\* a Wait call after that returns true.
C9_WaitTimeoutHarmless ==
    /\ [][\A w \in Waiters :
              (wpc[w] = "waiting" /\ wpc'[w] = "false")
                  => UNCHANGED <<monitorVars, regVars, sigVars>>]_vars
    /\ \A w \in Waiters :
           (wpc[w] = "false" /\ pc \notin {"recv", "done"}) ~> SequenceComplete
    /\ \A w \in Waiters : Released(w)

\* a Wait call returned false while the first of two resources was being closed
C9_Witness ==
    /\ pc = "await"
    /\ Len(closersStack) = 2
    /\ stackIndex = 1
    /\ \E w \in Waiters : wpc[w] = "false"

\* C10: once the trigger is consumed, with close operations and callback
\* that return, the Completion Signal opens, and every Wait call blocked on
\* it is released with true: the signal is not used up by the first waiter.
C10_AllWaitersReleased ==
    /\ (consumed > 0) ~> (completedChan = "closed")
    /\ [][completedChan = "closed" => completedChan' = "closed"]_vars
    /\ \A w \in Waiters : Released(w)

\* no callback set, the signal open, every Wait caller released with true
C10_Witness ==
    /\ completedChan = "closed"
    /\ callbackFunc = Nil
    /\ Len(closersStack) = 2
    /\ \A w \in Waiters : wpc[w] = "true"

\* C11: once the shutdown sequence has completed, a Wait call entered
\* afterwards leaves its select returning true, whatever timeout it was given
\* (zero included); it never returns false.
C11_WaitAfterCompletion ==
    [][\A w \in Waiters :
          (wAfter[w] /\ wpc[w] = "waiting" /\ wpc'[w] # "waiting")
              => wpc'[w] = "true"]_vars

\* the registered resource that the i-th Outcome Record of the walk is about
Recorded(i) == closersStack[walkStart - i + 1]

\* C12: for a resource registered with no deadline (Add, or AddWithTimeout
\* with 0) the sequencer waits until the close operation has returned, no
\* deadline ever passes for it, and its record is SUCCESS with no error if
\* the operation returned none and FAILED with the returned error otherwise.
C12_NoDeadlineFaithful ==
    /\ \A i \in 1..Len(result.Result) :
           Recorded(i).Timeout = 0 =>
               /\ Recorded(i).Close # "hang"
               /\ result.Result[i].Error = CloseResult(Recorded(i).Close)
               /\ result.Result[i].Status =
                      IF Recorded(i).Close = "ok" THEN "SUCCESS" ELSE "FAILED"
    /\ (gpc # "none" /\ Closer.Timeout = 0) => ~ctxDone
    /\ (gpc = "inClose" /\ Closer.Timeout = 0) =>
           (pc = "await" /\ resultChan = <<>> /\ Len(result.Result) < Len(invoked))

\* two resources without deadline, the first closed failed and the second
\* succeeded
C12_Witness ==
    /\ pc = "done"
    /\ Len(result.Result) = 2
    /\ Recorded(1).Timeout = 0 /\ Recorded(2).Timeout = 0
    /\ result.Result[1].Error = "CloseError"
    /\ result.Result[2].Status = "SUCCESS"

\* every registered close operation returns success
AllCloseOk == \A k \in 1..Len(closersStack) : closersStack[k].Close = "ok"

\* C13: if N resources are registered and every close operation returns
\* success without exceeding a deadline, the report the callback receives
\* has FailedOrTimeoutCount = 0 and exactly N Outcome Records, one per
\* registered resource, each SUCCESS with a nil error.
C13_AllSuccessReport ==
    \A r \in 1..Len(cbReports) :
        (AllCloseOk /\ ~exceeded) =>
            /\ cbReports[r].FailedOrTimeoutCount = 0
            /\ Len(cbReports[r].Result) = Len(closersStack)
            /\ \A i \in 1..Len(cbReports[r].Result) :
                   /\ cbReports[r].Result[i].Name = Recorded(i).Name
                   /\ cbReports[r].Result[i].Status = "SUCCESS"
                   /\ cbReports[r].Result[i].Error = Nil

\* C14: however many trigger events are delivered, the monitor consumes
\* exactly one and runs the sequence once: it never waits for a trigger
\* again, no close operation is invoked a second time and the callback is
\* not invoked a second time.
C14_SingleSequence ==
    /\ [](consumed <= 1)
    /\ [](Len(cbReports) <= 1)
    /\ [](\A i, j \in 1..Len(invoked) : i # j => invoked[i] # invoked[j])
    /\ [](Len(invoked) <= Len(closersStack))
    /\ [][pc # "recv" => pc' # "recv"]_vars
    /\ [][consumed > 0 => (walkStart' = walkStart \/ walkStart = -1)]_vars

\* the sequence has run once with a resource and a callback, and a second
\* trigger was delivered during it and is still in the channel
C14_Witness ==
    /\ pc = "done"
    /\ consumed = 1
    /\ signalChan # <<>>
    /\ Len(invoked) = 1
    /\ Len(cbReports) = 1

\* C15: an orchestrator constructed with an empty set of trigger identities
\* never fires: whatever signals arrive, the monitor consumes none, no close
\* operation is invoked and the Completion Signal, on which Wait returns
\* true, never opens.
C15_EmptySetNeverFires ==
    closeSignals = {} =>
        /\ consumed = 0
        /\ pc = "recv"
        /\ invoked = <<>>
        /\ completedChan = "open"
        /\ \A w \in Waiters : wpc[w] # "true"

\* closeAll is walking the registry
Walking == pc \in {"closeAll", "loop", "await"}

C17_InTimeOwnResult ==
    (resultChan # <<>> /\ Closer.Timeout > 0 /\ ~overran) =>
        /\ Head(resultChan).Error = CloseResult(Closer.Close)
        /\ Head(resultChan).Status = IF Closer.Close = "ok" THEN "SUCCESS" ELSE "FAILED"

\* close operations dispatched and not yet recorded
Outstanding == Len(invoked) - Len(result.Result)

\* C18: resources are closed strictly one at a time: a close operation is
\* started only when the record of the one before it has been recorded, so
\* at most one close operation is dispatched and not yet recorded.
C18_OneAtATime ==
    /\ [](Outstanding \in {0, 1})
    /\ [](gpc # "none" => (pc = "await" /\ Outstanding = 1 /\ resultChan = <<>>))
    /\ [][Len(invoked') > Len(invoked) =>
              /\ Outstanding = 0
              /\ gpc = "none"
              /\ resultChan = <<>>
              /\ Len(invoked') = Len(invoked) + 1]_vars

\* the second of two resources is being closed, the first is recorded
C18_Witness ==
    /\ pc = "await"
    /\ gpc = "inClose"
    /\ Len(invoked) = 2
    /\ Len(result.Result) = 1

\* C19: the trigger subscription is released before the Completion Signal
\* opens: whenever the signal is open, and so whenever a Wait call has
\* returned true, the orchestrator has unsubscribed, and no trigger is
\* delivered to its channel any more.
C19_UnsubscribedBeforeOpen ==
    /\ [](completedChan = "closed" => ~subscribed)
    /\ [](\A w \in Waiters : wpc[w] = "true" => ~subscribed)
    /\ [][completedChan' # completedChan => (~subscribed /\ ~subscribed')]_vars
    /\ [][(\E w \in Waiters : wpc[w] = "true") => signalChan' = signalChan]_vars

\* a Wait call returned true after a sequence over two resources
C19_Witness ==
    /\ \E w \in Waiters : wpc[w] = "true"
    /\ ~subscribed
    /\ Len(result.Result) = 2

\* C20: a resource registered after the sequencer has started walking the
\* registry is never closed in that sequence, gets no record, and does not
\* disturb it: the walk goes on, closing the resources registered before it
\* began, each once, in reverse registration order.
C20_LateRegistrationHarmless ==
    (walkStart >= 0 /\ walkStart = regAtTrigger /\ Len(closersStack) > walkStart) =>
        /\ pc # "fault"
        /\ \A i \in 1..Len(invoked) : invoked[i] < walkStart
        /\ invoked = Descending(walkStart, Len(invoked))
        /\ Len(result.Result) <= walkStart
        /\ WalkDone => (Len(invoked) = walkStart /\ Len(result.Result) = walkStart)

====
